---- MODULE Spec2Model ----
(***************************************************************************)
(* A model of the Stellar wallet wrapper (class StellarWallet), the wallet *)
(* provider registry and the wallet page that drives them.  Every awaited  *)
(* call of the browser extension (freighterApi), of the Horizon server and *)
(* of localStorage is one step whose outcome the environment chooses.      *)
(***************************************************************************)
EXTENDS Integers, Sequences, FiniteSets, TLC

VARIABLES
    bridge,     \* the wallet extension: what freighterApi would answer now
    ledger,     \* the Horizon test network: account id -> account state
    marker,     \* localStorage holds the key 'stellar_wallet_connected'
    pc,         \* per caller: the await the running wallet method is at
    method,     \* per caller: the wallet method that runs or ran last
    args,       \* per caller: the arguments of that method
    loc,        \* per caller: the method's local constants
    ret,        \* per caller: how the method settled (returned or threw)
    trace,      \* per caller: the external calls made since it was triggered
    session,    \* the Session state of spec section 4.1, as the calls imply it
    recent,     \* how far the last completed calls are into connect, disconnect
    balHist,    \* the balance the caller's getBalance returned last, while the ledger stands
    ui,         \* the wallet page's React state (useState of Home)
    hpc,        \* per handler of the page: the await it is suspended at
    mounted,    \* the component the browser shows
    planModal,  \* DistributionPlanModal: its props, its plan, what it called
    dashboard   \* FoodBankDashboard: its props, its state, its fetches

\* The state of the components other than the wallet page.
components == <<mounted, planModal, dashboard>>

vars == <<bridge, ledger, marker, pc, method, args, loc, ret, trace,
          session, recent, balHist, ui, hpc, mounted, planModal, dashboard>>

----------------------------------------------------------------------------
(* Values *)

\* Account ids the extension and the ledger know.
Keys == {"GA", "GB"}

\* The empty public key: the falsy value `!publicKey` tests for.
NoKey == ""

\* StellarSdk.Networks.TESTNET, the passphrase every transaction is built with.
TESTNET == "TESTNET"

PUBLIC == "PUBLIC"

Networks == {TESTNET, PUBLIC}

\* .setTimeout(180)
TIMEOUT == 180

\* StellarSdk.BASE_FEE
BASE_FEE == "100"

\* The direct caller of the exported singleton `stellarWallet`.
API == "api"

\* The click handlers of the wallet page.
Handlers == {"handleConnect", "handleDisconnect", "handleSend", "handleAddToken"}

Procs == {API} \cup Handlers

Native(b) == [asset_type |-> "native", balance |-> b]

Credit(b) == [asset_type |-> "credit_alphanum4", balance |-> b]

\* The balance lists an account of the ledger may carry.
BalanceLists ==
    { <<Credit("5.0000000")>>,
      <<Credit("5.0000000"), Native("100.0000000")>>,
      <<Credit("5.0000000"), Native("0.0000000")>> }

AccountStates == {[balances |-> b] : b \in BalanceLists}

BridgeStates ==
    [installed : BOOLEAN, allowed : BOOLEAN, network : Networks, account : Keys]

\* What the callers pass to sendPayment.
Destinations == {"GB", "not-an-address"}

Amounts == {"10", "abc"}

\* What the callers pass to addTrustline.
AssetCodes == {"USDC", "not a code"}

Issuers == {"GA", "not-an-address"}

\* No local is bound; xdr holds the transaction in hand, if any, as <<tx>>.
NoLocals == [publicKey |-> NoKey, xdr |-> <<>>]

NoRet == [ok |-> FALSE, val |-> "pending"]

\* The rejection of an awaited external call.
Rejection(call) == call \o " rejected"

----------------------------------------------------------------------------
(* The external collaborators *)

\* freighterApi.isConnected(): resolves with the extension's answer, or rejects.
IsConnectedOutcomes ==
    {[ok |-> TRUE, val |-> bridge.installed], [ok |-> FALSE, val |-> FALSE]}

\* freighterApi.isAllowed()
IsAllowedOutcomes ==
    {[ok |-> TRUE, val |-> bridge.allowed], [ok |-> FALSE, val |-> FALSE]}

\* freighterApi.getNetwork()
GetNetworkOutcomes ==
    {[ok |-> TRUE, val |-> bridge.network], [ok |-> FALSE, val |-> ""]}

\* freighterApi.getPublicKey(): the active account's key when the user lets it,
\* the empty key or a rejection when the user does not (or no extension is there).
GetPublicKeyOutcomes ==
    {[ok |-> TRUE, val |-> NoKey], [ok |-> FALSE, val |-> NoKey]}
    \cup (IF bridge.installed THEN {[ok |-> TRUE, val |-> bridge.account]} ELSE {})

\* The extension remembers a granted permission.
BridgeAfterKey(o) ==
    IF o.ok /\ o.val # NoKey THEN [bridge EXCEPT !.allowed = TRUE] ELSE bridge

\* server.loadAccount(k): the account as the ledger holds it now, or a rejection
\* (the account is not funded, the network is down).
LoadAccountOutcomes(k) ==
    {[ok |-> FALSE, val |-> <<>>], [ok |-> TRUE, val |-> ledger[k].balances]}

\* freighterApi.signTransaction(xdr, {networkPassphrase}): the user approves and
\* the active account signs, the extension answers something that is no
\* transaction envelope, or the request rejects.
SignTransactionOutcomes ==
    {"rejected"} \cup (IF bridge.installed THEN {"signed", "malformed"} ELSE {})

\* The account has lumens to pay with.
Funded(state) ==
    \E i \in DOMAIN state.balances :
      /\ state.balances[i].asset_type = "native"
      /\ state.balances[i].balance # "0.0000000"

\* server.submitTransaction(tx): the ledger takes a transaction only with its
\* source account's signature, and a payment only from a funded account; any
\* submission may fail.
SubmitTransactionOutcomes(tx) ==
    {"rejected"}
    \cup (IF /\ tx.signatures = {tx.envelope.source}
             /\ tx.envelope.op.type = "payment" => Funded(ledger[tx.envelope.source])
          THEN {"accepted"} ELSE {})

\* localStorage.removeItem(key) throws when the storage is not accessible.
RemoveItemOutcomes == {"removed", "threw"}

----------------------------------------------------------------------------
(* The SDK's pure parts *)

\* StellarSdk.Operation.payment throws on a destination that is no account id
\* and on an amount that is no positive decimal.
ValidPayment(destination, amount) == destination \in Keys /\ amount = "10"

\* new StellarSdk.Asset(code, issuer) throws on a malformed code or issuer.
ValidAsset(assetCode, issuerAddress) == assetCode = "USDC" /\ issuerAddress \in Keys

\* new TransactionBuilder(account, {fee, networkPassphrase}).addOperation(op)
\*   .setTimeout(t).build()
BuildTransaction(source, op, passphrase, timeout) ==
    [source |-> source, op |-> op, fee |-> BASE_FEE,
     networkPassphrase |-> passphrase, timeout |-> timeout]

\* transaction.toXDR(): the unsigned envelope.
ToXDR(tx) == [envelope |-> tx, signatures |-> {}, wellFormed |-> TRUE]

\* What the extension hands back for an approved signing request.
Signed(xdr, signer) == [xdr EXCEPT !.signatures = @ \cup {signer}]

\* What it hands back when the answer is no envelope.
Malformed(xdr) == [xdr EXCEPT !.wellFormed = FALSE]

\* StellarSdk.TransactionBuilder.fromXDR(signedXDR, passphrase): the envelope read
\* under the given passphrase.
FromXDR(signedXDR, passphrase) ==
    [signedXDR EXCEPT !.envelope.networkPassphrase = passphrase]

----------------------------------------------------------------------------
(* Control flow shared by the wallet methods *)

\* The method goes on to its next await.
Goto(p, entries, next, locals) ==
    /\ pc' = [pc EXCEPT ![p] = next]
    /\ loc' = [loc EXCEPT ![p] = locals]
    /\ trace' = [trace EXCEPT ![p] = @ \o entries]
    /\ UNCHANGED ret

\* The method returns value.
Return(p, entries, value) ==
    /\ pc' = [pc EXCEPT ![p] = "done"]
    /\ loc' = [loc EXCEPT ![p] = NoLocals]
    /\ trace' = [trace EXCEPT ![p] = @ \o entries]
    /\ ret' = [ret EXCEPT ![p] = [ok |-> TRUE, val |-> value]]

\* catch (error) { console.error(prefix, error); throw error; }
Throw(p, entries, prefix, error) ==
    /\ pc' = [pc EXCEPT ![p] = "done"]
    /\ loc' = [loc EXCEPT ![p] = NoLocals]
    /\ trace' = [trace EXCEPT ![p] = @ \o entries \o <<<<"console.error", prefix, error>>>>]
    /\ ret' = [ret EXCEPT ![p] = [ok |-> FALSE, val |-> error]]

----------------------------------------------------------------------------
(* StellarWallet.connect(providerName) *)

\* connect() without its check of the extension's answer.
connect_isConnected_unchecked(p) ==
    /\ pc[p] = "connect:isConnected"
    /\ \E o \in IsConnectedOutcomes :
         LET e == <<<<"freighterApi.isConnected", o.ok, o.val>>>> IN
         IF ~o.ok
         THEN Throw(p, e, "Failed to connect wallet:", Rejection("freighterApi.isConnected"))
         ELSE Goto(p, e, "connect:isAllowed", loc[p])
    /\ UNCHANGED <<bridge, ledger, marker, method, args, session, recent, balHist,
                   ui, hpc, components>>

connect_isConnected(p) ==
    /\ pc[p] = "connect:isConnected"
    /\ \E o \in IsConnectedOutcomes :
         LET e == <<<<"freighterApi.isConnected", o.ok, o.val>>>> IN
         IF ~o.ok
         THEN Throw(p, e, "Failed to connect wallet:", Rejection("freighterApi.isConnected"))
         ELSE IF ~o.val
         THEN Throw(p, e, "Failed to connect wallet:", "Please install Freighter wallet")
         ELSE Goto(p, e, "connect:isAllowed", loc[p])
    /\ UNCHANGED <<bridge, ledger, marker, method, args, session, recent, balHist,
                   ui, hpc, components>>

connect_isAllowed(p) ==
    /\ pc[p] = "connect:isAllowed"
    /\ \E o \in IsAllowedOutcomes :
         LET e == <<<<"freighterApi.isAllowed", o.ok, o.val>>>> IN
         IF ~o.ok
         THEN Throw(p, e, "Failed to connect wallet:", Rejection("freighterApi.isAllowed"))
         ELSE IF ~o.val
         THEN Goto(p, e, "connect:requestAccess", loc[p])
         ELSE Goto(p, e, "connect:getPublicKey", loc[p])
    /\ UNCHANGED <<bridge, ledger, marker, method, args, session, recent, balHist,
                   ui, hpc, components>>

\* if (!isAllowed) { await freighterApi.getPublicKey(); }  -- the result is dropped
connect_requestAccess(p) ==
    /\ pc[p] = "connect:requestAccess"
    /\ \E o \in GetPublicKeyOutcomes :
         LET e == <<<<"freighterApi.getPublicKey", "permission", o.ok, o.val>>>> IN
         /\ IF ~o.ok
            THEN Throw(p, e, "Failed to connect wallet:", Rejection("freighterApi.getPublicKey"))
            ELSE Goto(p, e, "connect:getPublicKey", loc[p])
         /\ bridge' = BridgeAfterKey(o)
    /\ UNCHANGED <<ledger, marker, method, args, session, recent, balHist, ui, hpc,
                   components>>

\* connect() without its check of the key it was given.
connect_getPublicKey_unchecked(p) ==
    /\ pc[p] = "connect:getPublicKey"
    /\ \E o \in GetPublicKeyOutcomes :
         LET e == <<<<"freighterApi.getPublicKey", "key", o.ok, o.val>>>> IN
         /\ IF ~o.ok
            THEN Throw(p, e, "Failed to connect wallet:", Rejection("freighterApi.getPublicKey"))
            ELSE Return(p, e, [address |-> o.val, publicKey |-> o.val])
         /\ bridge' = BridgeAfterKey(o)
    /\ UNCHANGED <<ledger, marker, method, args, session, recent, balHist, ui, hpc,
                   components>>

connect_getPublicKey(p) ==
    /\ pc[p] = "connect:getPublicKey"
    /\ \E o \in GetPublicKeyOutcomes :
         LET e == <<<<"freighterApi.getPublicKey", "key", o.ok, o.val>>>> IN
         /\ IF ~o.ok
            THEN Throw(p, e, "Failed to connect wallet:", Rejection("freighterApi.getPublicKey"))
            ELSE IF o.val = NoKey
            THEN Throw(p, e, "Failed to connect wallet:", "Failed to get public key")
            ELSE Return(p, e, [address |-> o.val, publicKey |-> o.val])
         /\ bridge' = BridgeAfterKey(o)
    /\ UNCHANGED <<ledger, marker, method, args, session, recent, balHist, ui, hpc,
                   components>>

----------------------------------------------------------------------------
(* StellarWallet.connect() of utils/stellar/wallet.ts, the wrapper without *)
(* trustlines: isAllowed and getNetwork are awaited and their answers      *)
(* dropped.                                                                *)

walletTs_isConnected(p) ==
    /\ pc[p] = "walletTs:isConnected"
    /\ \E o \in IsConnectedOutcomes :
         LET e == <<<<"freighterApi.isConnected", o.ok, o.val>>>> IN
         IF ~o.ok
         THEN Throw(p, e, "Failed to connect wallet:", Rejection("freighterApi.isConnected"))
         ELSE IF ~o.val
         THEN Throw(p, e, "Failed to connect wallet:", "Please install the Freighter wallet")
         ELSE Goto(p, e, "walletTs:isAllowed", loc[p])
    /\ UNCHANGED <<bridge, ledger, marker, method, args, session, recent, balHist,
                   ui, hpc, components>>

walletTs_isAllowed(p) ==
    /\ pc[p] = "walletTs:isAllowed"
    /\ \E o \in IsAllowedOutcomes :
         LET e == <<<<"freighterApi.isAllowed", o.ok, o.val>>>> IN
         IF ~o.ok
         THEN Throw(p, e, "Failed to connect wallet:", Rejection("freighterApi.isAllowed"))
         ELSE Goto(p, e, "walletTs:getNetwork", loc[p])
    /\ UNCHANGED <<bridge, ledger, marker, method, args, session, recent, balHist,
                   ui, hpc, components>>

walletTs_getNetwork(p) ==
    /\ pc[p] = "walletTs:getNetwork"
    /\ \E o \in GetNetworkOutcomes :
         LET e == <<<<"freighterApi.getNetwork", o.ok, o.val>>>> IN
         IF ~o.ok
         THEN Throw(p, e, "Failed to connect wallet:", Rejection("freighterApi.getNetwork"))
         ELSE Goto(p, e, "walletTs:getPublicKey", loc[p])
    /\ UNCHANGED <<bridge, ledger, marker, method, args, session, recent, balHist,
                   ui, hpc, components>>

walletTs_getPublicKey(p) ==
    /\ pc[p] = "walletTs:getPublicKey"
    /\ \E o \in GetPublicKeyOutcomes :
         LET e == <<<<"freighterApi.getPublicKey", "key", o.ok, o.val>>>> IN
         /\ IF ~o.ok
            THEN Throw(p, e, "Failed to connect wallet:", Rejection("freighterApi.getPublicKey"))
            ELSE IF o.val = NoKey
            THEN Throw(p, e, "Failed to connect wallet:", "Failed to get public key")
            ELSE Return(p, e, [address |-> o.val, publicKey |-> o.val])
         /\ bridge' = BridgeAfterKey(o)
    /\ UNCHANGED <<ledger, marker, method, args, session, recent, balHist, ui, hpc,
                   components>>

----------------------------------------------------------------------------
(* WalletProviders.FREIGHTER.connect() *)

\* WalletProviders.FREIGHTER.isInstalled(): true when isConnected() resolves,
\* whatever it resolves with; false when it rejects.
FREIGHTER_isInstalled(p) ==
    /\ pc[p] = "FREIGHTER.isInstalled:isConnected"
    /\ \E o \in IsConnectedOutcomes :
         Return(p, <<<<"freighterApi.isConnected", o.ok, o.val>>>>, o.ok)
    /\ UNCHANGED <<bridge, ledger, marker, method, args, session, recent, balHist,
                   ui, hpc, components>>

FREIGHTER_isConnected(p) ==
    /\ pc[p] = "FREIGHTER:isConnected"
    /\ \E o \in IsConnectedOutcomes :
         LET e == <<<<"freighterApi.isConnected", o.ok, o.val>>>> IN
         IF ~o.ok
         THEN Throw(p, e, "Freighter connect error:", Rejection("freighterApi.isConnected"))
         ELSE IF ~o.val
         THEN Throw(p, e, "Freighter connect error:", "Please install Freighter wallet")
         ELSE Goto(p, e, "FREIGHTER:getNetwork", loc[p])
    /\ UNCHANGED <<bridge, ledger, marker, method, args, session, recent, balHist,
                   ui, hpc, components>>

FREIGHTER_getNetwork(p) ==
    /\ pc[p] = "FREIGHTER:getNetwork"
    /\ \E o \in GetNetworkOutcomes :
         LET e == <<<<"freighterApi.getNetwork", o.ok, o.val>>>> IN
         IF ~o.ok
         THEN Throw(p, e, "Freighter connect error:", Rejection("freighterApi.getNetwork"))
         ELSE IF o.val # "TESTNET"
         THEN Throw(p, e, "Freighter connect error:",
                    "Please switch to TESTNET in Freighter wallet settings")
         ELSE Goto(p, e, "FREIGHTER:isAllowed", loc[p])
    /\ UNCHANGED <<bridge, ledger, marker, method, args, session, recent, balHist,
                   ui, hpc, components>>

FREIGHTER_isAllowed(p) ==
    /\ pc[p] = "FREIGHTER:isAllowed"
    /\ \E o \in IsAllowedOutcomes :
         LET e == <<<<"freighterApi.isAllowed", o.ok, o.val>>>> IN
         IF ~o.ok
         THEN Throw(p, e, "Freighter connect error:", Rejection("freighterApi.isAllowed"))
         ELSE IF ~o.val
         THEN Goto(p, e, "FREIGHTER:requestAccess", loc[p])
         ELSE Goto(p, e, "FREIGHTER:getPublicKey", loc[p])
    /\ UNCHANGED <<bridge, ledger, marker, method, args, session, recent, balHist,
                   ui, hpc, components>>

\* This will trigger the permission popup
FREIGHTER_requestAccess(p) ==
    /\ pc[p] = "FREIGHTER:requestAccess"
    /\ \E o \in GetPublicKeyOutcomes :
         LET e == <<<<"freighterApi.getPublicKey", "permission", o.ok, o.val>>>> IN
         /\ IF ~o.ok
            THEN Throw(p, e, "Freighter connect error:", Rejection("freighterApi.getPublicKey"))
            ELSE IF o.val = NoKey
            THEN Throw(p, e, "Freighter connect error:", "Permission denied")
            ELSE Goto(p, e, "FREIGHTER:getPublicKey", loc[p])
         /\ bridge' = BridgeAfterKey(o)
    /\ UNCHANGED <<ledger, marker, method, args, session, recent, balHist, ui, hpc,
                   components>>

FREIGHTER_getPublicKey(p) ==
    /\ pc[p] = "FREIGHTER:getPublicKey"
    /\ \E o \in GetPublicKeyOutcomes :
         LET e == <<<<"freighterApi.getPublicKey", "key", o.ok, o.val>>>> IN
         /\ IF ~o.ok
            THEN Throw(p, e, "Freighter connect error:", Rejection("freighterApi.getPublicKey"))
            ELSE IF o.val = NoKey
            THEN Throw(p, e, "Freighter connect error:",
                       "Failed to get public key from Freighter")
            ELSE Return(p, e, o.val)
         /\ bridge' = BridgeAfterKey(o)
    /\ UNCHANGED <<ledger, marker, method, args, session, recent, balHist, ui, hpc,
                   components>>

----------------------------------------------------------------------------
(* StellarWallet.getBalance() *)

Min(S) == CHOOSE x \in S : \A y \in S : x <= y

\* The balance of the account's first entry, whatever its asset.
FirstBalance(balances) == IF balances = <<>> THEN "0" ELSE balances[1].balance

\* account.balances.find(b => b.asset_type === 'native')?.balance || '0'
NativeBalance(balances) ==
    LET found == {i \in DOMAIN balances : balances[i].asset_type = "native"} IN
    IF found = {} THEN "0"
    ELSE IF balances[Min(found)].balance = "" THEN "0"
    ELSE balances[Min(found)].balance

\* The balance returned last is kept until the ledger changes.
NoteBalance(p, value) == IF p = API THEN value ELSE balHist

NoteLedger(newLedger) == IF newLedger = ledger THEN balHist ELSE "none"

getBalance_getPublicKey(p) ==
    /\ pc[p] = "getBalance:getPublicKey"
    /\ \E o \in GetPublicKeyOutcomes :
         LET e == <<<<"freighterApi.getPublicKey", "key", o.ok, o.val>>>> IN
         /\ IF ~o.ok
            THEN Throw(p, e, "Failed to get balance:", Rejection("freighterApi.getPublicKey"))
            ELSE IF o.val = NoKey
            THEN Throw(p, e, "Failed to get balance:", "Wallet not connected")
            ELSE Goto(p, e, "getBalance:loadAccount", [loc[p] EXCEPT !.publicKey = o.val])
         /\ bridge' = BridgeAfterKey(o)
    /\ UNCHANGED <<ledger, marker, method, args, session, recent, balHist, ui, hpc,
                   components>>

getBalance_loadAccount(p) ==
    /\ pc[p] = "getBalance:loadAccount"
    /\ \E o \in LoadAccountOutcomes(loc[p].publicKey) :
         LET e == <<<<"server.loadAccount", loc[p].publicKey, o.ok, o.val>>>> IN
         IF ~o.ok
         THEN /\ Throw(p, e, "Failed to get balance:", Rejection("server.loadAccount"))
              /\ UNCHANGED balHist
         ELSE /\ Return(p, e, NativeBalance(o.val))
              /\ balHist' = NoteBalance(p, NativeBalance(o.val))
    /\ UNCHANGED <<bridge, ledger, marker, method, args, session, recent, ui, hpc,
                   components>>

----------------------------------------------------------------------------
(* StellarWallet.sendPayment(destination, amount) *)

PaymentOp(destination, amount) ==
    [type |-> "payment", destination |-> destination, asset |-> "native",
     amount |-> amount]

sendPayment_getPublicKey(p) ==
    /\ pc[p] = "sendPayment:getPublicKey"
    /\ \E o \in GetPublicKeyOutcomes :
         LET e == <<<<"freighterApi.getPublicKey", "key", o.ok, o.val>>>> IN
         /\ IF ~o.ok
            THEN Throw(p, e, "Failed to send payment:", Rejection("freighterApi.getPublicKey"))
            ELSE IF o.val = NoKey
            THEN Throw(p, e, "Failed to send payment:", "Wallet not connected")
            ELSE Goto(p, e, "sendPayment:loadAccount", [loc[p] EXCEPT !.publicKey = o.val])
         /\ bridge' = BridgeAfterKey(o)
    /\ UNCHANGED <<ledger, marker, method, args, session, recent, balHist, ui, hpc,
                   components>>

\* await loadAccount, then build the transaction and serialise it (no await
\* in between), then ask for the signature.
sendPayment_loadAccount(p) ==
    /\ pc[p] = "sendPayment:loadAccount"
    /\ \E o \in LoadAccountOutcomes(loc[p].publicKey) :
         LET e  == <<<<"server.loadAccount", loc[p].publicKey, o.ok, o.val>>>>
             tx == BuildTransaction(loc[p].publicKey,
                                    PaymentOp(args[p].destination, args[p].amount),
                                    TESTNET, TIMEOUT)
         IN
         IF ~o.ok
         THEN Throw(p, e, "Failed to send payment:", Rejection("server.loadAccount"))
         ELSE IF ~ValidPayment(args[p].destination, args[p].amount)
         THEN Throw(p, e, "Failed to send payment:", "Operation.payment threw")
         ELSE Goto(p, e \o <<<<"TransactionBuilder.build", tx>>>>,
                   "sendPayment:signTransaction", [loc[p] EXCEPT !.xdr = <<ToXDR(tx)>>])
    /\ UNCHANGED <<bridge, ledger, marker, method, args, session, recent, balHist,
                   ui, hpc, components>>

\* await signTransaction(xdr, {networkPassphrase: TESTNET}), then fromXDR, then
\* submit.
\* sendPayment() going on to submit after a signing request that rejected.
sendPayment_signTransaction_unchecked(p) ==
    /\ pc[p] = "sendPayment:signTransaction"
    /\ \E o \in SignTransactionOutcomes :
         LET xdr == loc[p].xdr[1]
             e(answer) == <<<<"freighterApi.signTransaction", xdr, TESTNET, o, answer>>>>
         IN
         CASE o = "rejected" ->
                Goto(p, e(xdr), "sendPayment:submitTransaction",
                     [loc[p] EXCEPT !.xdr = <<FromXDR(xdr, TESTNET)>>])
           [] o = "malformed" ->
                Throw(p, e(Malformed(xdr)), "Failed to send payment:",
                      "TransactionBuilder.fromXDR threw")
           [] o = "signed" ->
                Goto(p, e(Signed(xdr, bridge.account)), "sendPayment:submitTransaction",
                     [loc[p] EXCEPT !.xdr = <<FromXDR(Signed(xdr, bridge.account), TESTNET)>>])
    /\ UNCHANGED <<bridge, ledger, marker, method, args, session, recent, balHist,
                   ui, hpc, components>>

sendPayment_signTransaction(p) ==
    /\ pc[p] = "sendPayment:signTransaction"
    /\ \E o \in SignTransactionOutcomes :
         LET xdr == loc[p].xdr[1]
             e(answer) == <<<<"freighterApi.signTransaction", xdr, TESTNET, o, answer>>>>
         IN
         CASE o = "rejected" ->
                Throw(p, e(xdr), "Failed to send payment:",
                      Rejection("freighterApi.signTransaction"))
           [] o = "malformed" ->
                Throw(p, e(Malformed(xdr)), "Failed to send payment:",
                      "TransactionBuilder.fromXDR threw")
           [] o = "signed" ->
                Goto(p, e(Signed(xdr, bridge.account)), "sendPayment:submitTransaction",
                     [loc[p] EXCEPT !.xdr = <<FromXDR(Signed(xdr, bridge.account), TESTNET)>>])
    /\ UNCHANGED <<bridge, ledger, marker, method, args, session, recent, balHist,
                   ui, hpc, components>>

\* The ledger applies an accepted transaction to its source account: a payment
\* spends the account's lumens, a trustline on a line the account already
\* carries leaves its balances as they are.
Applied(tx, state) ==
    IF tx.envelope.op.type = "payment"
    THEN [balances |->
            [i \in DOMAIN state.balances |->
               IF state.balances[i].asset_type = "native"
               THEN Native("0.0000000") ELSE state.balances[i]]]
    ELSE state

LedgerAfter(tx) ==
    [ledger EXCEPT ![tx.envelope.source] = Applied(tx, ledger[tx.envelope.source])]

sendPayment_submitTransaction(p) ==
    /\ pc[p] = "sendPayment:submitTransaction"
    /\ \E o \in SubmitTransactionOutcomes(loc[p].xdr[1]) :
         LET tx == loc[p].xdr[1]
             e == <<<<"server.submitTransaction", tx, o>>>>
         IN
         IF o = "rejected"
         THEN /\ Throw(p, e, "Failed to send payment:", Rejection("server.submitTransaction"))
              /\ UNCHANGED <<ledger, balHist>>
         ELSE /\ Return(p, e, [successful |-> TRUE, source |-> tx.envelope.source])
              /\ ledger' = LedgerAfter(tx)
              /\ balHist' = NoteLedger(LedgerAfter(tx))
    /\ UNCHANGED <<bridge, marker, method, args, session, recent, ui, hpc, components>>

----------------------------------------------------------------------------
(* StellarWallet.addTrustline(assetCode, issuerAddress) *)

ChangeTrustOp(assetCode, issuerAddress) ==
    [type |-> "changeTrust", destination |-> issuerAddress, asset |-> assetCode,
     amount |-> ""]

addTrustline_getPublicKey(p) ==
    /\ pc[p] = "addTrustline:getPublicKey"
    /\ \E o \in GetPublicKeyOutcomes :
         LET e == <<<<"freighterApi.getPublicKey", "key", o.ok, o.val>>>> IN
         /\ IF ~o.ok
            THEN Throw(p, e, "Failed to add trustline:", Rejection("freighterApi.getPublicKey"))
            ELSE IF o.val = NoKey
            THEN Throw(p, e, "Failed to add trustline:", "Wallet not connected")
            ELSE Goto(p, e, "addTrustline:loadAccount", [loc[p] EXCEPT !.publicKey = o.val])
         /\ bridge' = BridgeAfterKey(o)
    /\ UNCHANGED <<ledger, marker, method, args, session, recent, balHist, ui, hpc,
                   components>>

addTrustline_loadAccount(p) ==
    /\ pc[p] = "addTrustline:loadAccount"
    /\ \E o \in LoadAccountOutcomes(loc[p].publicKey) :
         LET e  == <<<<"server.loadAccount", loc[p].publicKey, o.ok, o.val>>>>
             tx == BuildTransaction(loc[p].publicKey,
                                    ChangeTrustOp(args[p].assetCode, args[p].issuerAddress),
                                    TESTNET, TIMEOUT)
         IN
         IF ~o.ok
         THEN Throw(p, e, "Failed to add trustline:", Rejection("server.loadAccount"))
         ELSE IF ~ValidAsset(args[p].assetCode, args[p].issuerAddress)
         THEN Throw(p, e, "Failed to add trustline:", "new Asset threw")
         ELSE Goto(p, e \o <<<<"TransactionBuilder.build", tx>>>>,
                   "addTrustline:signTransaction", [loc[p] EXCEPT !.xdr = <<ToXDR(tx)>>])
    /\ UNCHANGED <<bridge, ledger, marker, method, args, session, recent, balHist,
                   ui, hpc, components>>

addTrustline_signTransaction(p) ==
    /\ pc[p] = "addTrustline:signTransaction"
    /\ \E o \in SignTransactionOutcomes :
         LET xdr == loc[p].xdr[1]
             e(answer) == <<<<"freighterApi.signTransaction", xdr, TESTNET, o, answer>>>>
         IN
         CASE o = "rejected" ->
                Throw(p, e(xdr), "Failed to add trustline:",
                      Rejection("freighterApi.signTransaction"))
           [] o = "malformed" ->
                Throw(p, e(Malformed(xdr)), "Failed to add trustline:",
                      "TransactionBuilder.fromXDR threw")
           [] o = "signed" ->
                Goto(p, e(Signed(xdr, bridge.account)), "addTrustline:submitTransaction",
                     [loc[p] EXCEPT !.xdr = <<FromXDR(Signed(xdr, bridge.account), TESTNET)>>])
    /\ UNCHANGED <<bridge, ledger, marker, method, args, session, recent, balHist,
                   ui, hpc, components>>

addTrustline_submitTransaction(p) ==
    /\ pc[p] = "addTrustline:submitTransaction"
    /\ \E o \in SubmitTransactionOutcomes(loc[p].xdr[1]) :
         LET tx == loc[p].xdr[1]
             e == <<<<"server.submitTransaction", tx, o>>>>
         IN
         IF o = "rejected"
         THEN /\ Throw(p, e, "Failed to add trustline:", Rejection("server.submitTransaction"))
              /\ UNCHANGED <<ledger, balHist>>
         ELSE /\ Return(p, e, [successful |-> TRUE, source |-> tx.envelope.source])
              /\ ledger' = LedgerAfter(tx)
              /\ balHist' = NoteLedger(LedgerAfter(tx))
    /\ UNCHANGED <<bridge, marker, method, args, session, recent, ui, hpc, components>>

----------------------------------------------------------------------------
(* StellarWallet.disconnect() *)

\* A disconnect that leaves the storage as it is.
MarkerKept(o) == marker

\* localStorage.removeItem('stellar_wallet_connected')
MarkerAfter(o) == IF o = "threw" THEN marker ELSE FALSE

\* The body has no await: the removal and the return are one step.
disconnect_body(p, o) ==
    LET e == <<<<"localStorage.removeItem", "stellar_wallet_connected", o>>>> IN
    /\ IF o = "threw"
       THEN Throw(p, e, "Failed to disconnect wallet:", "localStorage.removeItem threw")
       ELSE Return(p, e, TRUE)
    /\ marker' = MarkerAfter(o)

disconnect_removeItem(p) ==
    /\ pc[p] = "disconnect:removeItem"
    /\ \E o \in RemoveItemOutcomes : disconnect_body(p, o)
    /\ UNCHANGED <<bridge, ledger, method, args, session, recent, balHist, ui, hpc,
                   components>>

\* A step of a method of the wallet singleton; none touches the page.
WalletStep(p) ==
    \/ connect_isConnected(p)
    \/ connect_isAllowed(p)
    \/ connect_requestAccess(p)
    \/ connect_getPublicKey(p)
    \/ getBalance_getPublicKey(p)
    \/ getBalance_loadAccount(p)
    \/ sendPayment_getPublicKey(p)
    \/ sendPayment_loadAccount(p)
    \/ sendPayment_signTransaction(p)
    \/ sendPayment_submitTransaction(p)
    \/ addTrustline_getPublicKey(p)
    \/ addTrustline_loadAccount(p)
    \/ addTrustline_signTransaction(p)
    \/ addTrustline_submitTransaction(p)
    \/ disconnect_removeItem(p)
    \/ walletTs_isConnected(p)
    \/ walletTs_isAllowed(p)
    \/ walletTs_getNetwork(p)
    \/ walletTs_getPublicKey(p)
    \/ FREIGHTER_isInstalled(p)
    \/ FREIGHTER_isConnected(p)
    \/ FREIGHTER_getNetwork(p)
    \/ FREIGHTER_isAllowed(p)
    \/ FREIGHTER_requestAccess(p)
    \/ FREIGHTER_getPublicKey(p)

----------------------------------------------------------------------------
(* The environment *)

\* The user changes the extension: installs or removes it, grants or revokes
\* the permission, picks another network or another account.
ExtensionChange ==
    /\ \E b \in BridgeStates :
         /\ Cardinality({f \in DOMAIN b : b[f] # bridge[f]}) = 1
         /\ bridge' = b
    /\ UNCHANGED <<ledger, marker, pc, method, args, loc, ret, trace,
                   session, recent, balHist, ui, hpc, components>>

\* The ledger moves on its own: an account is funded, paid or merged away.
LedgerChange ==
    /\ \E k \in Keys, state \in AccountStates :
         /\ state # ledger[k]
         /\ ledger' = [ledger EXCEPT ![k] = state]
         /\ balHist' = NoteLedger([ledger EXCEPT ![k] = state])
    /\ UNCHANGED <<bridge, marker, pc, method, args, loc, ret, trace, session, recent,
                   ui, hpc, components>>

----------------------------------------------------------------------------
(* A caller of the exported singleton: any method, any arguments, one call *)
(* after the other.                                                        *)

\* The three connect paths of the repository.
ConnectMethods == {"connect", "walletTs.connect", "FREIGHTER.connect"}

Methods ==
    ConnectMethods
    \cup {"getBalance", "sendPayment", "addTrustline", "disconnect", "FREIGHTER.isInstalled"}

NoArgs == [destination |-> "", amount |-> "", assetCode |-> "", issuerAddress |-> ""]

ArgsOf(m) ==
    CASE m = "sendPayment" ->
           {[NoArgs EXCEPT !.destination = d, !.amount = a] :
              d \in Destinations, a \in Amounts}
      [] m = "addTrustline" ->
           {[NoArgs EXCEPT !.assetCode = c, !.issuerAddress = i] :
              c \in AssetCodes, i \in Issuers}
      [] OTHER -> {NoArgs}

\* The first await of each method.
Entry(m) ==
    CASE m = "connect" -> "connect:isConnected"
      [] m = "walletTs.connect" -> "walletTs:isConnected"
      [] m = "FREIGHTER.connect" -> "FREIGHTER:isConnected"
      [] m = "getBalance" -> "getBalance:getPublicKey"
      [] m = "sendPayment" -> "sendPayment:getPublicKey"
      [] m = "addTrustline" -> "addTrustline:getPublicKey"
      [] m = "disconnect" -> "disconnect:removeItem"
      [] m = "FREIGHTER.isInstalled" -> "FREIGHTER.isInstalled:isConnected"

\* Session per spec 4.1: Connecting while connect() runs, Connected once it has
\* returned, Disconnected once it has thrown or disconnect() has returned.
SessionAtCall(m) == IF m \in ConnectMethods THEN "Connecting" ELSE session

SessionAtReturn(m, ok) ==
    CASE m \in ConnectMethods -> (IF ok THEN "Connected" ELSE "Disconnected")
      [] m = "disconnect" /\ ok -> "Disconnected"
      [] OTHER -> session

\* Whether the calls completed last are a successful connect() ("connected"),
\* or that and right after it a successful disconnect() ("disconnected").
Remember(m, ok) ==
    CASE m \in ConnectMethods /\ ok -> "connected"
      [] m = "disconnect" /\ ok /\ recent = "connected" -> "disconnected"
      [] OTHER -> "other"

\* The balance returned last is forgotten when the session begins or ends.
NoteSession(m) == IF m \in ConnectMethods \cup {"disconnect"} THEN "none" ELSE balHist

ApiCall ==
    /\ pc[API] = "idle"
    /\ \E m \in Methods : \E a \in ArgsOf(m) :
         /\ pc' = [pc EXCEPT ![API] = Entry(m)]
         /\ method' = [method EXCEPT ![API] = m]
         /\ args' = [args EXCEPT ![API] = a]
         /\ session' = SessionAtCall(m)
    /\ UNCHANGED <<bridge, ledger, marker, loc, ret, trace, recent, balHist, ui, hpc,
                   components>>

ApiReturn ==
    /\ pc[API] = "done"
    /\ pc' = [pc EXCEPT ![API] = "idle"]
    /\ session' = SessionAtReturn(method[API], ret[API].ok)
    /\ recent' = Remember(method[API], ret[API].ok)
    /\ method' = [method EXCEPT ![API] = "none"]
    /\ args' = [args EXCEPT ![API] = NoArgs]
    /\ ret' = [ret EXCEPT ![API] = NoRet]
    /\ trace' = [trace EXCEPT ![API] = <<>>]
    /\ balHist' = NoteSession(method[API])
    /\ UNCHANGED <<bridge, ledger, marker, loc, ui, hpc, components>>

----------------------------------------------------------------------------
(* The wallet page (app/page.tsx): Home's state and its click handlers.    *)
(* A handler runs to its next await in one step; the page is rendered and  *)
(* takes clicks in between.                                                *)

\* error.message || fallback
Message(error, fallback) == IF error = "" THEN fallback ELSE error

\* What the user types into the Send form.
RecipientInputs == {"", "GB"}

AmountInputs == {"", "10"}

\* The handler calls a method of the wallet and awaits it.
Await(h, m, a, next) ==
    /\ pc' = [pc EXCEPT ![h] = Entry(m)]
    /\ method' = [method EXCEPT ![h] = m]
    /\ args' = [args EXCEPT ![h] = a]
    /\ ret' = [ret EXCEPT ![h] = NoRet]
    /\ hpc' = [hpc EXCEPT ![h] = next]

\* The handler has run to its end; what it did stays on record until the page
\* has rendered the result.
Finish(h, entries) ==
    /\ hpc' = [hpc EXCEPT ![h] = "settled"]
    /\ trace' = [trace EXCEPT ![h] = @ \o entries]
    /\ UNCHANGED <<pc, method, args, ret>>

\* catch (error) { console.error(prefix, error); toast.error(message) }
Caught(prefix, error, fallback) ==
    << <<"console.error", prefix, error>>, <<"toast.error", Message(error, fallback)>> >>

\* React renders a handler's last state updates before the browser runs
\* anything else.
Rendering == \E h \in Handlers : hpc[h] = "settled"

\* The wallet page is shown and takes events.
Interactive == mounted = "Home" /\ ~Rendering

\* The controls of the page itself: the open dialog ("modal modal-open")
\* covers them.
PageControls == Interactive /\ ~ui.isAddTokenModalOpen

\* No handler of the page is suspended at an await.
Quiet == \A h \in Handlers : hpc[h] = "idle"

Rendered(h) ==
    /\ hpc[h] = "settled"
    /\ hpc' = [hpc EXCEPT ![h] = "idle"]
    /\ pc' = [pc EXCEPT ![h] = "idle"]
    /\ method' = [method EXCEPT ![h] = "none"]
    /\ args' = [args EXCEPT ![h] = NoArgs]
    /\ ret' = [ret EXCEPT ![h] = NoRet]
    /\ trace' = [trace EXCEPT ![h] = <<>>]
    /\ UNCHANGED <<bridge, ledger, marker, loc, session, recent, balHist, ui,
                   components>>

\* The Connect Wallet button: rendered while !isConnected, disabled while isLoading.
handleConnect_click ==
    LET h == "handleConnect" IN
    /\ hpc[h] = "idle" /\ ~ui.isConnected /\ ~ui.isLoading
    /\ ui' = [ui EXCEPT !.isLoading = TRUE]
    /\ Await(h, "connect", NoArgs, "await connect")
    /\ trace' = [trace EXCEPT ![h] = <<>>]
    /\ UNCHANGED <<bridge, ledger, marker, loc, session, recent, balHist, components>>

handleConnect_afterConnect ==
    LET h == "handleConnect" IN
    /\ hpc[h] = "await connect" /\ pc[h] = "done"
    /\ IF ret[h].ok
       THEN /\ ui' = [ui EXCEPT !.stellarAddress = ret[h].val.address,
                                !.isConnected = TRUE]
            /\ Await(h, "getBalance", NoArgs, "await getBalance")
            /\ UNCHANGED trace
       ELSE /\ ui' = [ui EXCEPT !.isLoading = FALSE]
            /\ Finish(h, Caught("Failed to connect wallet:", ret[h].val,
                                "Failed to connect wallet. Please try again!"))
    /\ UNCHANGED <<bridge, ledger, marker, loc, session, recent, balHist, components>>

handleConnect_afterGetBalance ==
    LET h == "handleConnect" IN
    /\ hpc[h] = "await getBalance" /\ pc[h] = "done"
    /\ IF ret[h].ok
       THEN /\ ui' = [ui EXCEPT !.balance = ret[h].val, !.isLoading = FALSE]
            /\ Finish(h, <<<<"toast.success", "Wallet connected successfully!">>>>)
       ELSE /\ ui' = [ui EXCEPT !.isLoading = FALSE]
            /\ Finish(h, Caught("Failed to connect wallet:", ret[h].val,
                                "Failed to connect wallet. Please try again!"))
    /\ UNCHANGED <<bridge, ledger, marker, loc, session, recent, balHist, components>>

\* The Disconnect Wallet button: rendered while isConnected, never disabled.
\* disconnect() settles without an await, so the handler is one step.
handleDisconnect ==
    LET h == "handleDisconnect" IN
    /\ hpc[h] = "idle" /\ ui.isConnected
    /\ \E o \in RemoveItemOutcomes :
         /\ marker' = MarkerAfter(o)
         /\ method' = [method EXCEPT ![h] = "disconnect"]
         /\ hpc' = [hpc EXCEPT ![h] = "settled"]
         /\ pc' = [pc EXCEPT ![h] = "done"]
         /\ IF o = "threw"
            THEN /\ ret' = [ret EXCEPT ![h] =
                              [ok |-> FALSE, val |-> "localStorage.removeItem threw"]]
                 /\ trace' = [trace EXCEPT ![h] =
                      << <<"localStorage.removeItem", "stellar_wallet_connected", o>>,
                         <<"console.error", "Failed to disconnect wallet:",
                           "localStorage.removeItem threw">> >>
                      \o Caught("Failed to disconnect wallet:",
                                "localStorage.removeItem threw",
                                "Failed to disconnect wallet. Please try again!")]
                 /\ UNCHANGED ui
            ELSE /\ ret' = [ret EXCEPT ![h] = [ok |-> TRUE, val |-> TRUE]]
                 /\ trace' = [trace EXCEPT ![h] =
                      << <<"localStorage.removeItem", "stellar_wallet_connected", o>>,
                         <<"toast.success", "Wallet disconnected successfully!">> >>]
                 /\ ui' = [ui EXCEPT !.stellarAddress = "", !.balance = "0",
                                     !.isConnected = FALSE]
    /\ UNCHANGED <<bridge, ledger, args, loc, session, recent, balHist, components>>

\* The inputs of the Send form, rendered while isConnected.
TypeRecipient ==
    /\ ui.isConnected
    /\ \E v \in RecipientInputs :
         v # ui.recipientAddress /\ ui' = [ui EXCEPT !.recipientAddress = v]
    /\ UNCHANGED <<bridge, ledger, marker, pc, method, args, loc, ret, trace,
                   session, recent, balHist, hpc, components>>

TypeAmount ==
    /\ ui.isConnected
    /\ \E v \in AmountInputs : v # ui.amount /\ ui' = [ui EXCEPT !.amount = v]
    /\ UNCHANGED <<bridge, ledger, marker, pc, method, args, loc, ret, trace,
                   session, recent, balHist, hpc, components>>

\* The Send button: rendered while isConnected, disabled while isLoading.
handleSend_click ==
    LET h == "handleSend" IN
    /\ hpc[h] = "idle" /\ ui.isConnected /\ ~ui.isLoading
    /\ IF ui.recipientAddress = "" \/ ui.amount = ""
       THEN /\ hpc' = [hpc EXCEPT ![h] = "settled"]
            /\ trace' = [trace EXCEPT ![h] =
                           <<<<"toast.error", "Please fill in all fields">>>>]
            /\ UNCHANGED <<ui, pc, method, args, ret>>
       ELSE /\ ui' = [ui EXCEPT !.isLoading = TRUE]
            /\ Await(h, "sendPayment",
                     [NoArgs EXCEPT !.destination = ui.recipientAddress,
                                    !.amount = ui.amount],
                     "await sendPayment")
            /\ trace' = [trace EXCEPT ![h] = <<>>]
    /\ UNCHANGED <<bridge, ledger, marker, loc, session, recent, balHist, components>>

\* A handleSend that calls sendPayment again when it has failed.
handleSend_afterSendPayment_retrying ==
    LET h == "handleSend" IN
    /\ hpc[h] = "await sendPayment" /\ pc[h] = "done"
    /\ IF ret[h].ok
       THEN /\ Await(h, "getBalance", NoArgs, "await getBalance")
            /\ trace' = [trace EXCEPT ![h] =
                           Append(@, <<"toast.success", "Transaction sent successfully!">>)]
            /\ UNCHANGED ui
       ELSE /\ Await(h, "sendPayment", args[h], "await sendPayment")
            /\ UNCHANGED <<ui, trace>>
    /\ UNCHANGED <<bridge, ledger, marker, loc, session, recent, balHist, components>>

handleSend_afterSendPayment ==
    LET h == "handleSend" IN
    /\ hpc[h] = "await sendPayment" /\ pc[h] = "done"
    /\ IF ret[h].ok
       THEN /\ Await(h, "getBalance", NoArgs, "await getBalance")
            /\ trace' = [trace EXCEPT ![h] =
                           Append(@, <<"toast.success", "Transaction sent successfully!">>)]
            /\ UNCHANGED ui
       ELSE /\ ui' = [ui EXCEPT !.isLoading = FALSE]
            /\ Finish(h, Caught("Failed to send payment:", ret[h].val,
                                "Failed to send payment. Please try again."))
    /\ UNCHANGED <<bridge, ledger, marker, loc, session, recent, balHist, components>>

handleSend_afterGetBalance ==
    LET h == "handleSend" IN
    /\ hpc[h] = "await getBalance" /\ pc[h] = "done"
    /\ IF ret[h].ok
       THEN /\ ui' = [ui EXCEPT !.balance = ret[h].val, !.recipientAddress = "",
                                !.amount = "", !.isLoading = FALSE]
            /\ Finish(h, <<>>)
       ELSE /\ ui' = [ui EXCEPT !.isLoading = FALSE]
            /\ Finish(h, Caught("Failed to send payment:", ret[h].val,
                                "Failed to send payment. Please try again."))
    /\ UNCHANGED <<bridge, ledger, marker, loc, session, recent, balHist, components>>

----------------------------------------------------------------------------
(* AddTokenModal (components/stellar/AddToken.tsx): Home mounts it always   *)
(* and shows it while isAddTokenModalOpen; its state is ui.addTokenModal.   *)

\* What the user types into the modal's fields, which start empty.
AssetCodeInputs == {"usdc"}

IssuerInputs == {"GA"}

\* String.prototype.toUpperCase
ToUpperCase(text) == IF text = "usdc" THEN "USDC" ELSE text

\* The Add Token button of the page: rendered while isConnected, never disabled.
OpenAddTokenModal ==
    /\ ui.isConnected /\ ~ui.isAddTokenModalOpen
    /\ ui' = [ui EXCEPT !.isAddTokenModalOpen = TRUE]
    /\ UNCHANGED <<bridge, ledger, marker, pc, method, args, loc, ret, trace,
                   session, recent, balHist, hpc, components>>

\* onClose, as the modal's Cancel button calls it.
CloseAddTokenModal ==
    /\ ui.isAddTokenModalOpen
    /\ ui' = [ui EXCEPT !.isAddTokenModalOpen = FALSE]
    /\ UNCHANGED <<bridge, ledger, marker, pc, method, args, loc, ret, trace,
                   session, recent, balHist, hpc, components>>

TypeAssetCode ==
    /\ ui.isAddTokenModalOpen
    /\ \E v \in AssetCodeInputs :
         /\ ToUpperCase(v) # ui.addTokenModal.assetCode
         /\ ui' = [ui EXCEPT !.addTokenModal.assetCode = ToUpperCase(v)]
    /\ UNCHANGED <<bridge, ledger, marker, pc, method, args, loc, ret, trace,
                   session, recent, balHist, hpc, components>>

TypeIssuerAddress ==
    /\ ui.isAddTokenModalOpen
    /\ \E v \in IssuerInputs :
         /\ v # ui.addTokenModal.issuerAddress
         /\ ui' = [ui EXCEPT !.addTokenModal.issuerAddress = v]
    /\ UNCHANGED <<bridge, ledger, marker, pc, method, args, loc, ret, trace,
                   session, recent, balHist, hpc, components>>

\* The modal's Add Token button: rendered while isOpen, disabled while the
\* modal's own isLoading.
handleAddToken_click ==
    LET h == "handleAddToken" IN
    /\ hpc[h] = "idle" /\ ui.isAddTokenModalOpen /\ ~ui.addTokenModal.isLoading
    /\ IF ui.addTokenModal.assetCode = "" \/ ui.addTokenModal.issuerAddress = ""
       THEN /\ hpc' = [hpc EXCEPT ![h] = "settled"]
            /\ trace' = [trace EXCEPT ![h] =
                           <<<<"toast.error", "Please fill in all fields">>>>]
            /\ UNCHANGED <<ui, pc, method, args, ret>>
       ELSE /\ ui' = [ui EXCEPT !.addTokenModal.isLoading = TRUE]
            /\ Await(h, "addTrustline",
                     [NoArgs EXCEPT !.assetCode = ui.addTokenModal.assetCode,
                                    !.issuerAddress = ui.addTokenModal.issuerAddress],
                     "await addTrustline")
            /\ trace' = [trace EXCEPT ![h] = <<>>]
    /\ UNCHANGED <<bridge, ledger, marker, loc, session, recent, balHist, components>>

\* A handleAddToken without its finally block.
handleAddToken_afterAddTrustline_noFinally ==
    LET h == "handleAddToken" IN
    /\ hpc[h] = "await addTrustline" /\ pc[h] = "done"
    /\ IF ret[h].ok
       THEN /\ ui' = [ui EXCEPT !.addTokenModal = [assetCode |-> "", issuerAddress |-> "",
                                                   isLoading |-> TRUE],
                                !.isAddTokenModalOpen = FALSE]
            /\ Finish(h, <<<<"toast.success", "Successfully added token",
                             args[h].assetCode>>>>)
       ELSE /\ UNCHANGED ui
            /\ Finish(h, Caught("Failed to add token:", ret[h].val,
                                "Failed to add token"))
    /\ UNCHANGED <<bridge, ledger, marker, loc, session, recent, balHist, components>>

handleAddToken_afterAddTrustline ==
    LET h == "handleAddToken" IN
    /\ hpc[h] = "await addTrustline" /\ pc[h] = "done"
    /\ IF ret[h].ok
       THEN /\ ui' = [ui EXCEPT !.addTokenModal = [assetCode |-> "", issuerAddress |-> "",
                                                   isLoading |-> FALSE],
                                !.isAddTokenModalOpen = FALSE]
            /\ Finish(h, <<<<"toast.success", "Successfully added token",
                             args[h].assetCode>>>>)
       ELSE /\ ui' = [ui EXCEPT !.addTokenModal.isLoading = FALSE]
            /\ Finish(h, Caught("Failed to add token:", ret[h].val,
                                "Failed to add token"))
    /\ UNCHANGED <<bridge, ledger, marker, loc, session, recent, balHist, components>>

\* The methods of the wallet the page calls and awaits.
PageWalletStep(p) ==
    \/ connect_isConnected(p)
    \/ connect_isAllowed(p)
    \/ connect_requestAccess(p)
    \/ connect_getPublicKey(p)
    \/ getBalance_getPublicKey(p)
    \/ getBalance_loadAccount(p)
    \/ sendPayment_getPublicKey(p)
    \/ sendPayment_loadAccount(p)
    \/ sendPayment_signTransaction(p)
    \/ sendPayment_submitTransaction(p)
    \/ addTrustline_getPublicKey(p)
    \/ addTrustline_loadAccount(p)
    \/ addTrustline_signTransaction(p)
    \/ addTrustline_submitTransaction(p)

----------------------------------------------------------------------------
(* DistributionPlanModal (components/dashboard/DistributionPlanModal.tsx):  *)
(* the plan the form holds, the props its parent passes and the calls       *)
(* handleSubmit makes.                                                      *)

\* A JavaScript number: an integer or NaN.
Num(n) == [nan |-> FALSE, v |-> n]

NaN == [nan |-> TRUE, v |-> 0]

\* a <= b and a >= b of JavaScript: false when either side is NaN.
Leq(a, b) == ~a.nan /\ ~b.nan /\ a.v <= b.v

Geq(a, b) == ~a.nan /\ ~b.nan /\ a.v >= b.v

\* What the user types into the number inputs, and parseInt of it.
NumberTexts == {"", "-1", "0", "5", "40", "60"}

ParseInt(text) ==
    CASE text = ""   -> NaN
      [] text = "-1" -> Num(-1)
      [] text = "0"  -> Num(0)
      [] text = "5"  -> Num(5)
      [] text = "40" -> Num(40)
      [] text = "60" -> Num(60)

ClientTexts == {"", "-1", "0", "5"}

AmountTexts == {"", "40", "60"}

DateInputs == {"", "2026-01-10T09:00"}

LocationInputs == {"", "Main Hall"}

NotesInputs == {"", "bring bags"}

Categories == {"Canned Goods", "Rice"}

Item(category, quantity) == [category |-> category, quantity |-> Num(quantity)]

\* The currentInventory prop: what the parent knows of the stock.
Inventories ==
    { <<>>,
      <<Item("Canned Goods", 50)>>,
      <<Item("Canned Goods", 50), Item("Rice", 40)>> }

\* useState<DistributionPlan>({date: '', location: '', expectedClients: 0, ...});
\* allocatedResources is the object's entries, a function of its keys.
EmptyPlan ==
    [date |-> "", location |-> "", expectedClients |-> Num(0),
     allocatedResources |-> [c \in {} |-> NaN], notes |-> ""]

\* The object with key k set to v: {...object, [k]: v}
WithKey(object, k, v) ==
    [c \in DOMAIN object \cup {k} |-> IF c = k THEN v ELSE object[c]]

\* currentInventory.find(item => item.category === category): the position of
\* the first such item, 0 when there is none.
FindItem(inventory, category) ==
    LET found == {i \in DOMAIN inventory : inventory[i].category = category} IN
    IF found = {} THEN 0 ELSE Min(found)

\* Object.entries(plan.allocatedResources).every(([category, amount]) =>
\*   inventoryItem && inventoryItem.quantity >= amount)
isValidAllocation(plan, inventory) ==
    \A category \in DOMAIN plan.allocatedResources :
      /\ FindItem(inventory, category) # 0
      /\ Geq(inventory[FindItem(inventory, category)].quantity,
             plan.allocatedResources[category])

\* !plan.date || !plan.location || plan.expectedClients <= 0
MissingRequired(plan) ==
    plan.date = "" \/ plan.location = "" \/ Leq(plan.expectedClients, Num(0))

\* The notifications of handleSubmit, word by word.
RequiredFieldsMessage == <<"Please", "fill", "in", "all", "required", "fields">>

InsufficientMessage == <<"Insufficient", "inventory", "for", "planned", "distribution">>

\* The parent shows the modal.
OpenPlanModal ==
    /\ mounted = "DistributionPlanModal"
    /\ ~planModal.isOpen
    /\ planModal' = [planModal EXCEPT !.isOpen = TRUE, !.calls = <<>>]
    /\ UNCHANGED <<bridge, ledger, marker, pc, method, args, loc, ret, trace,
                   session, recent, balHist, ui, hpc, mounted, dashboard>>

\* The parent passes another currentInventory.
InventoryChange ==
    /\ mounted = "DistributionPlanModal"
    /\ \E inventory \in Inventories :
         /\ inventory # planModal.currentInventory
         /\ planModal' = [planModal EXCEPT !.currentInventory = inventory, !.calls = <<>>]
    /\ UNCHANGED <<bridge, ledger, marker, pc, method, args, loc, ret, trace,
                   session, recent, balHist, ui, hpc, mounted, dashboard>>

\* The onChange handlers of the form's inputs: setPlan({...plan, field: value}).
SetPlan(plan) ==
    /\ mounted = "DistributionPlanModal"
    /\ planModal.isOpen
    /\ plan # planModal.plan
    /\ planModal' = [planModal EXCEPT !.plan = plan, !.calls = <<>>]
    /\ UNCHANGED <<bridge, ledger, marker, pc, method, args, loc, ret, trace,
                   session, recent, balHist, ui, hpc, mounted, dashboard>>

ChangeDate == \E v \in DateInputs : SetPlan([planModal.plan EXCEPT !.date = v])

ChangeLocation == \E v \in LocationInputs : SetPlan([planModal.plan EXCEPT !.location = v])

ChangeExpectedClients ==
    \E text \in ClientTexts :
      SetPlan([planModal.plan EXCEPT !.expectedClients = ParseInt(text)])

\* One number input per item of currentInventory.
ChangeAllocation ==
    \E i \in DOMAIN planModal.currentInventory : \E text \in AmountTexts :
      SetPlan([planModal.plan EXCEPT !.allocatedResources =
                 WithKey(@, planModal.currentInventory[i].category, ParseInt(text))])

ChangeNotes == \E v \in NotesInputs : SetPlan([planModal.plan EXCEPT !.notes = v])

\* The Cancel button: onClick={onClose}; the parent hides the modal.
CancelPlan ==
    /\ mounted = "DistributionPlanModal"
    /\ planModal.isOpen
    /\ planModal' = [planModal EXCEPT !.isOpen = FALSE, !.calls = <<<<"onClose">>>>]
    /\ UNCHANGED <<bridge, ledger, marker, pc, method, args, loc, ret, trace,
                   session, recent, balHist, ui, hpc, mounted, dashboard>>

\* The form's onSubmit.
handleSubmit ==
    /\ mounted = "DistributionPlanModal"
    /\ planModal.isOpen
    /\ LET plan == planModal.plan IN
       IF MissingRequired(plan)
       THEN planModal' = [planModal EXCEPT
                            !.calls = <<<<"handleSubmit">>,
                                        <<"toast.error", RequiredFieldsMessage>>>>]
       ELSE IF ~isValidAllocation(plan, planModal.currentInventory)
       THEN planModal' = [planModal EXCEPT
                            !.calls = <<<<"handleSubmit">>,
                                        <<"toast.error", InsufficientMessage>>>>]
       ELSE planModal' = [planModal EXCEPT
                            !.isOpen = FALSE,
                            !.calls = <<<<"handleSubmit">>, <<"onSave", plan>>,
                                        <<"onClose">>>>]
    /\ UNCHANGED <<bridge, ledger, marker, pc, method, args, loc, ret, trace,
                   session, recent, balHist, ui, hpc, mounted, dashboard>>

----------------------------------------------------------------------------
(* FoodBankDashboard (components/dashboard/FoodBankDashboard.tsx): its      *)
(* state and fetchDashboardData, which the effect on [foodBankId,           *)
(* selectedTimeframe] calls after the first render and after each change.   *)

\* The fetchDashboardData invocations that may be suspended at once.
MaxFetches == 2

FoodBankIds == {"fb-1", "fb-2"}

Timeframes == {"week", "month", "year"}

\* await Promise.all([fetchPredictions(), fetchInventory(),
\* fetchDistributionPlans()]): the three sources are placeholders for API
\* calls; the model lets them fail as those calls would.
FetchOutcomes == {"resolved", "rejected"}

\* fetchDashboardData up to its await: setIsLoading(true).
fetchDashboardData_call(state) ==
    [state EXCEPT !.isLoading = TRUE, !.inFlight = @ + 1, !.calls = <<>>]

\* The effect after the first render.
DashboardMounted ==
    /\ mounted = "FoodBankDashboard"
    /\ ~dashboard.effectRan
    /\ dashboard' = fetchDashboardData_call([dashboard EXCEPT !.effectRan = TRUE])
    /\ UNCHANGED <<bridge, ledger, marker, pc, method, args, loc, ret, trace,
                   session, recent, balHist, ui, hpc, mounted, planModal>>

\* The select's onChange: setSelectedTimeframe, and the effect runs again.
ChangeTimeframe ==
    /\ mounted = "FoodBankDashboard"
    /\ dashboard.effectRan
    /\ dashboard.inFlight < MaxFetches
    /\ \E v \in Timeframes :
         /\ v # dashboard.selectedTimeframe
         /\ dashboard' = fetchDashboardData_call([dashboard EXCEPT !.selectedTimeframe = v])
    /\ UNCHANGED <<bridge, ledger, marker, pc, method, args, loc, ret, trace,
                   session, recent, balHist, ui, hpc, mounted, planModal>>

\* The parent passes another foodBankId, and the effect runs again.
ChangeFoodBank ==
    /\ mounted = "FoodBankDashboard"
    /\ dashboard.effectRan
    /\ dashboard.inFlight < MaxFetches
    /\ \E v \in FoodBankIds :
         /\ v # dashboard.foodBankId
         /\ dashboard' = fetchDashboardData_call([dashboard EXCEPT !.foodBankId = v])
    /\ UNCHANGED <<bridge, ledger, marker, pc, method, args, loc, ret, trace,
                   session, recent, balHist, ui, hpc, mounted, planModal>>

\* fetchDashboardData after its await: the data is set, or the failure is
\* caught; finally setIsLoading(false).
fetchDashboardData_settle ==
    /\ mounted = "FoodBankDashboard"
    /\ dashboard.inFlight > 0
    /\ \E o \in FetchOutcomes :
         dashboard' =
           [dashboard EXCEPT
              !.isLoading = FALSE,
              !.inFlight = @ - 1,
              !.loaded = IF o = "resolved" THEN TRUE ELSE @,
              !.calls = IF o = "resolved"
                        THEN <<<<"fetchDashboardData", o>>>>
                        ELSE <<<<"fetchDashboardData", o>>,
                               <<"toast.error", "Failed to fetch dashboard data">>,
                               <<"console.error", Rejection("Promise.all")>>>>]
    /\ UNCHANGED <<bridge, ledger, marker, pc, method, args, loc, ret, trace,
                   session, recent, balHist, ui, hpc, mounted, planModal>>

----------------------------------------------------------------------------

\* The program before anything has run, whatever the browser shows.
Loaded ==
    /\ bridge \in BridgeStates
    /\ ledger \in [Keys -> AccountStates]
    /\ marker \in BOOLEAN
    /\ pc = [p \in Procs |-> "idle"]
    /\ method = [p \in Procs |-> "none"]
    /\ args = [p \in Procs |-> NoArgs]
    /\ loc = [p \in Procs |-> NoLocals]
    /\ ret = [p \in Procs |-> NoRet]
    /\ trace = [p \in Procs |-> <<>>]
    /\ session = "Disconnected"
    /\ recent = "other"
    /\ balHist = "none"
    /\ ui = [stellarAddress |-> "", balance |-> "0", isConnected |-> FALSE,
             isLoading |-> FALSE, recipientAddress |-> "", amount |-> "",
             isAddTokenModalOpen |-> FALSE,
             addTokenModal |-> [assetCode |-> "", issuerAddress |-> "",
                                isLoading |-> FALSE]]
    /\ hpc = [h \in Handlers |-> "idle"]
    /\ planModal = [isOpen |-> FALSE, currentInventory |-> <<>>, plan |-> EmptyPlan,
                    calls |-> <<>>]
    /\ dashboard = [foodBankId |-> "fb-1", selectedTimeframe |-> "month",
                    isLoading |-> TRUE, loaded |-> FALSE, inFlight |-> 0,
                    effectRan |-> FALSE, calls |-> <<>>]

Components == {"Home", "DistributionPlanModal", "FoodBankDashboard"}

Init == Loaded /\ mounted = "Home"

\* The wallet singleton under any sequence of calls.
Next ==
    \/ ApiCall
    \/ ApiReturn
    \/ WalletStep(API)
    \/ ExtensionChange
    \/ LedgerChange

Spec == Init /\ [][Next]_vars

\* What the browser may show: the wallet page with its handlers and the
\* methods they call, the distribution plan form, or the dashboard.  The user
\* turns to the extension's settings between the page's operations; what the
\* extension answers during one is the outcome of each call.
NextUI ==
    \/ \E h \in Handlers : Rendered(h)
    \/ PageControls /\ handleConnect_click
    \/ Interactive /\ handleConnect_afterConnect
    \/ Interactive /\ handleConnect_afterGetBalance
    \/ PageControls /\ handleDisconnect
    \/ PageControls /\ handleSend_click
    \/ Interactive /\ handleSend_afterSendPayment
    \/ Interactive /\ handleSend_afterGetBalance
    \/ PageControls /\ TypeRecipient
    \/ PageControls /\ TypeAmount
    \/ PageControls /\ OpenAddTokenModal
    \/ Interactive /\ CloseAddTokenModal
    \/ Interactive /\ TypeAssetCode
    \/ Interactive /\ TypeIssuerAddress
    \/ Interactive /\ handleAddToken_click
    \/ Interactive /\ handleAddToken_afterAddTrustline
    \/ Interactive /\ \E h \in Handlers : PageWalletStep(h)
    \/ Interactive /\ Quiet /\ ExtensionChange /\ bridge'.network = bridge.network
    \/ OpenPlanModal
    \/ InventoryChange
    \/ ChangeDate
    \/ ChangeLocation
    \/ ChangeExpectedClients
    \/ ChangeAllocation
    \/ ChangeNotes
    \/ CancelPlan
    \/ handleSubmit
    \/ DashboardMounted
    \/ ChangeTimeframe
    \/ ChangeFoodBank
    \/ fetchDashboardData_settle

\* A component is loaded in a browser whose storage holds no marker, against
\* a ledger that only the wallet page's own payments change; the extension
\* is on the test network and matters to the wallet page only.
InitUI ==
    /\ Loaded
    /\ mounted \in Components
    /\ ~marker
    /\ ledger = [k \in Keys |-> IF k = "GA"
                                    THEN [balances |-> <<Credit("5.0000000"),
                                                         Native("100.0000000")>>]
                                    ELSE [balances |-> <<Credit("5.0000000")>>]]
    /\ bridge.network = TESTNET
    /\ mounted # "Home" =>
         bridge = [installed |-> FALSE, allowed |-> FALSE, network |-> TESTNET,
                   account |-> "GA"]

SpecUI == InitUI /\ [][NextUI]_vars


----------------------------------------------------------------------------
(* Reading a caller's trace *)

Settled(p) == pc[p] = "done"

\* The positions of the trace at which `call` was made.
At(p, call) == {i \in DOMAIN trace[p] : trace[p][i][1] = call}

Called(p, call) == At(p, call) # {}

BridgeCalls ==
    {"freighterApi.isConnected", "freighterApi.isAllowed", "freighterApi.getNetwork",
     "freighterApi.getPublicKey", "freighterApi.signTransaction"}

LedgerCalls == {"server.loadAccount", "server.submitTransaction"}

Max(S) == CHOOSE x \in S : \A y \in S : y <= x

----------------------------------------------------------------------------
(* C1.  While the Session is Disconnected (never connected, or after        *)
(* disconnect), getBalance, sendPayment and addTrustline fail               *)
(* and call neither loadAccount nor submitTransaction.                       *)

C1_DisconnectedCallsAreRejected ==
    (session = "Disconnected"
       /\ method[API] \in {"getBalance", "sendPayment", "addTrustline"})
    => /\ \A c \in LedgerCalls : ~Called(API, c)
       /\ Settled(API) => ~ret[API].ok

----------------------------------------------------------------------------
(* C2.  After a successful connect() and, right after it, a successful      *)
(* disconnect(), the Session is Disconnected and the next getBalance()      *)
(* fails.                                                                   *)

C2_GetBalanceAfterDisconnectFails ==
    (recent = "disconnected" /\ method[API] = "getBalance" /\ Settled(API))
    => (session = "Disconnected" /\ ~ret[API].ok)

----------------------------------------------------------------------------
(* C3.  sendPayment and addTrustline run load account, build (test-network  *)
(* passphrase, the fixed timeout), sign (scoped to the test network),       *)
(* submit, in that order and each at most once; what is submitted is the    *)
(* payload the signing of this call returned; a stage that fails ends the   *)
(* call with that failure and no later stage runs.                          *)

Pipeline(p) ==
    LET t      == trace[p]
        load   == At(p, "server.loadAccount")
        build  == At(p, "TransactionBuilder.build")
        sign   == At(p, "freighterApi.signTransaction")
        submit == At(p, "server.submitTransaction")
        one(S) == Cardinality(S) <= 1
    IN
    /\ one(load) /\ one(build) /\ one(sign) /\ one(submit)
    /\ \A b \in build :
         /\ \E l \in load : l < b /\ t[l][3]
         /\ t[b][2].networkPassphrase = TESTNET
         /\ t[b][2].timeout = 180
    /\ \A g \in sign :
         /\ \E b \in build : b < g /\ t[g][2] = ToXDR(t[b][2])
         /\ t[g][3] = TESTNET
    /\ \A u \in submit :
         \E g \in sign :
           /\ g < u
           /\ t[g][4] = "signed"
           /\ t[u][2].envelope = t[g][5].envelope
           /\ t[u][2].signatures = t[g][5].signatures
    \* a failed stage is the last stage, and the call fails
    /\ \A l \in load : ~t[l][3] => (build = {} /\ Settled(p) /\ ~ret[p].ok)
    /\ \A g \in sign : t[g][4] # "signed" => (submit = {} /\ Settled(p) /\ ~ret[p].ok)
    /\ \A u \in submit : Settled(p) /\ (ret[p].ok <=> t[u][3] = "accepted")
    /\ (Settled(p) /\ ret[p].ok) => submit # {}

C3_PipelineOrder ==
    \A p \in Procs : method[p] \in {"sendPayment", "addTrustline"} => Pipeline(p)

\* A payment whose signing the extension rejected: nothing was submitted.
C3_Witness ==
    /\ method[API] = "sendPayment" /\ Settled(API) /\ ~ret[API].ok
    /\ \E g \in At(API, "freighterApi.signTransaction") : trace[API][g][4] = "rejected"
    /\ ~Called(API, "server.submitTransaction")

----------------------------------------------------------------------------
(* C4.  When the extension answers isConnected with false, connect() fails  *)
(* with the install-the-wallet error and has asked the extension for        *)
(* neither the permission nor a key; a handleConnect that got this answer   *)
(* leaves the page disconnected with an empty address.                      *)

InstallErrors ==
    {"Please install Freighter wallet", "Please install the Freighter wallet"}

C4_NotInstalledIsRejected ==
    \A p \in Procs :
      \A i \in At(p, "freighterApi.isConnected") :
        (trace[p][i][2] /\ ~trace[p][i][3])
        => /\ Settled(p)
           /\ method[p] \in ConnectMethods
           /\ ~ret[p].ok
           /\ ret[p].val \in InstallErrors
           /\ ~Called(p, "freighterApi.isAllowed")
           /\ ~Called(p, "freighterApi.getPublicKey")
           /\ p \in Handlers => (~ui.isConnected /\ ui.stellarAddress = "")

\* handleConnect has run to its end on an extension that is not installed and
\* has shown the error.
C4_Witness ==
    /\ hpc["handleConnect"] = "settled"
    /\ \E i \in At("handleConnect", "freighterApi.isConnected") :
         trace["handleConnect"][i][2] /\ ~trace["handleConnect"][i][3]
    /\ \E t \in At("handleConnect", "toast.error") :
         trace["handleConnect"][t][2] = "Please install Freighter wallet"

----------------------------------------------------------------------------
(* C5.  connect() fails, on every connect path, when the extension's        *)
(* network is not the test network: no connect has returned an address      *)
(* while the extension is on another network.                               *)

C5_ConnectFailsOffTestnet ==
    \A p \in Procs :
      (method[p] \in ConnectMethods /\ Settled(p) /\ bridge.network # TESTNET)
      => ~ret[p].ok

----------------------------------------------------------------------------
(* C6.  connect() fails when the last key request it made to the extension  *)
(* came back empty or rejected, with the error of that stage; when it       *)
(* succeeds, address and publicKey are both the key the extension gave.     *)

KeyErrors ==
    {"Failed to get public key", "Permission denied",
     "Failed to get public key from Freighter", Rejection("freighterApi.getPublicKey")}

LastKeyRequest(p) == trace[p][Max(At(p, "freighterApi.getPublicKey"))]

C6_ConnectNeedsKey ==
    \A p \in Procs :
      (method[p] \in {"connect", "FREIGHTER.connect"} /\ Settled(p))
      => /\ (Called(p, "freighterApi.getPublicKey")
               /\ ~(LastKeyRequest(p)[3] /\ LastKeyRequest(p)[4] \in Keys))
            => (~ret[p].ok /\ ret[p].val \in KeyErrors)
         /\ ret[p].ok =>
              /\ Called(p, "freighterApi.getPublicKey")
              /\ LastKeyRequest(p)[3]
              /\ LastKeyRequest(p)[4] \in Keys
              /\ IF method[p] = "connect"
                 THEN /\ ret[p].val.address = LastKeyRequest(p)[4]
                      /\ ret[p].val.publicKey = LastKeyRequest(p)[4]
                 ELSE ret[p].val = LastKeyRequest(p)[4]

\* Permission was not granted, the permission request was made and the key
\* request after it came back empty.
C6_Witness ==
    /\ method[API] = "connect" /\ Settled(API) /\ ~ret[API].ok
    /\ \E a \in At(API, "freighterApi.isAllowed") : ~trace[API][a][3]
    /\ Cardinality(At(API, "freighterApi.getPublicKey")) = 2
    /\ LastKeyRequest(API)[3] /\ LastKeyRequest(API)[4] = NoKey

----------------------------------------------------------------------------
(* C7.  Whenever handleConnect ends in failure (it has shown an error), the *)
(* page is disconnected and holds no address.                               *)

C7_FailedConnectIsDisconnected ==
    (/\ hpc["handleConnect"] = "settled"
     /\ Called("handleConnect", "toast.error"))
    => (~ui.isConnected /\ ui.stellarAddress = "")

----------------------------------------------------------------------------
(* C8.  getBalance() on an account that was loaded returns: "0" when the    *)
(* account has no balance entry of the native asset, and it does not throw; *)
(* the balance of the native entry when there is one.                       *)

C8_NativeBalanceOrZero ==
    \A p \in Procs :
      (method[p] = "getBalance" /\ Settled(p))
      => \A l \in At(p, "server.loadAccount") :
           LET balances == trace[p][l][4] IN
           trace[p][l][3] =>
             /\ ret[p].ok
             /\ (\A i \in DOMAIN balances : balances[i].asset_type # "native")
                => ret[p].val = "0"
             /\ (\E i \in DOMAIN balances : balances[i].asset_type = "native")
                => \E i \in DOMAIN balances :
                     /\ balances[i].asset_type = "native"
                     /\ ret[p].val = balances[i].balance

\* The loaded account holds a credit balance only.
C8_Witness ==
    /\ method[API] = "getBalance" /\ Settled(API) /\ ret[API].ok
    /\ \E l \in At(API, "server.loadAccount") :
         trace[API][l][4] = <<Credit("5.0000000")>>

----------------------------------------------------------------------------
(* C9.  disconnect() removes the persisted marker, calls neither the        *)
(* extension nor the ledger and returns true; it throws only when the       *)
(* storage operation threw, and then that failure reaches the caller.       *)

C9_DisconnectIsLocal ==
    \A p \in Procs :
      (method[p] = "disconnect" /\ Settled(p))
      => /\ \A c \in BridgeCalls \cup LedgerCalls : ~Called(p, c)
         /\ Cardinality(At(p, "localStorage.removeItem")) = 1
         /\ \A r \in At(p, "localStorage.removeItem") :
              /\ trace[p][r][2] = "stellar_wallet_connected"
              /\ IF trace[p][r][3] = "removed"
                 THEN ret[p].ok /\ ret[p].val = TRUE /\ ~marker
                 ELSE ~ret[p].ok /\ ret[p].val = "localStorage.removeItem threw"

\* disconnect() has returned true on an installed and permitted extension, of
\* which it asked nothing; the marker is gone.
C9_Witness ==
    /\ method[API] = "disconnect" /\ Settled(API) /\ ret[API].ok
    /\ bridge.installed /\ bridge.allowed
    /\ ~marker

----------------------------------------------------------------------------
(* C10.  Within one Connected session, two getBalance() calls with no      *)
(* ledger change between them return the same value.                        *)

C10_RepeatedBalanceIsSame ==
    [][(/\ session = "Connected"
        /\ pc[API] = "getBalance:loadAccount" /\ pc'[API] = "done" /\ ret'[API].ok
        /\ balHist # "none")
       => ret'[API].val = balHist]_vars

----------------------------------------------------------------------------
(* Reading what the distribution plan form did on its last submit.          *)

Submitted == planModal.calls # <<>> /\ planModal.calls[1] = <<"handleSubmit">>

\* The positions at which handleSubmit called `what`.
PlanCalls(what) ==
    {i \in DOMAIN planModal.calls : planModal.calls[i][1] = what}

\* The notification names one of the words.
Names(message, words) == \E i \in DOMAIN message : message[i] \in words

\* The date and the location are there and the client count is a positive number.
RequiredMet(plan) ==
    /\ plan.date # "" /\ plan.location # ""
    /\ ~plan.expectedClients.nan /\ plan.expectedClients.v > 0

\* The categories of the allocation that are not in the inventory or ask for
\* more than the inventory has.
Exceeding(plan, inventory) ==
    {c \in DOMAIN plan.allocatedResources :
       \A i \in DOMAIN inventory :
         inventory[i].category = c
         => plan.allocatedResources[c].v > inventory[i].quantity.v}

----------------------------------------------------------------------------
(* C11.  A submitted plan whose required fields are met and whose amounts   *)
(* are numbers is accepted exactly when no category of its allocation is    *)
(* unknown or asks for more than the inventory has: when one does, the      *)
(* notification names such a category and save is not called; when none     *)
(* does, save is called once, with exactly the plan.                        *)

C11_AllocationDecidesAndIsNamed ==
    LET plan == planModal.plan
        over == Exceeding(plan, planModal.currentInventory)
    IN
    (/\ Submitted
     /\ RequiredMet(plan)
     /\ \A c \in DOMAIN plan.allocatedResources : ~plan.allocatedResources[c].nan)
    => IF over # {}
       THEN /\ PlanCalls("onSave") = {}
            /\ \E t \in PlanCalls("toast.error") : Names(planModal.calls[t][2], over)
       ELSE /\ Cardinality(PlanCalls("onSave")) = 1
            /\ \A i \in PlanCalls("onSave") : planModal.calls[i][2] = plan
            /\ PlanCalls("toast.error") = {}

----------------------------------------------------------------------------
(* C12.  A submit with the date missing, the location missing or a client   *)
(* count that is no positive number shows a notification that names the     *)
(* first of these, and a submit that fails validation calls neither save    *)
(* nor close and leaves the plan as entered; any other submit calls save    *)
(* with the plan and then close.                                            *)

FirstUnmet(plan) ==
    CASE plan.date = "" -> {"date", "Date"}
      [] plan.location = "" -> {"location", "Location"}
      [] OTHER -> {"clients", "Clients", "expectedClients"}

C12_SubmitValidates ==
    [][(planModal'.calls # <<>> /\ planModal'.calls[1] = <<"handleSubmit">>)
       => LET plan  == planModal.plan
              calls == planModal'.calls
              at(what) == {i \in DOMAIN calls : calls[i][1] = what}
          IN
          /\ planModal'.plan = plan
          /\ ~RequiredMet(plan)
             => \E t \in at("toast.error") : Names(calls[t][2], FirstUnmet(plan))
          /\ IF at("toast.error") # {}
             THEN at("onSave") = {} /\ at("onClose") = {} /\ planModal'.isOpen
             ELSE calls = <<<<"handleSubmit">>, <<"onSave", plan>>, <<"onClose">>>>
      ]_vars

----------------------------------------------------------------------------
(* C13.  No two wallet operations triggered from the page (connect, balance *)
(* query, send, add trustline, disconnect) are in flight at the same time:  *)
(* while one handler is suspended at an awaited call, no other handler of   *)
(* the page has been started.                                               *)

\* The handler is suspended at an awaited call of the wallet.
Suspended(h) == hpc[h] \notin {"idle", "settled"}

C13_OneOperationAtATime ==
    \A h \in Handlers : \A g \in Handlers \ {h} :
        Suspended(h) => hpc[g] = "idle"

----------------------------------------------------------------------------
(* C14.  No failure is retried: what one click of Connect, Send or Add      *)
(* Token sets off asks the extension for at most one signature and submits  *)
(* at most one transaction, and once a stage has failed it calls neither    *)
(* the extension nor the ledger again.                                      *)

\* The positions of the trace at which the extension or the ledger was called.
ExternalCalls(p) ==
    {i \in DOMAIN trace[p] : trace[p][i][1] \in BridgeCalls \cup LedgerCalls}

C14_NoRetry ==
    \A h \in Handlers :
        /\ Cardinality(At(h, "freighterApi.signTransaction")) <= 1
        /\ Cardinality(At(h, "server.submitTransaction")) <= 1
        /\ \A i \in At(h, "console.error") : \A j \in ExternalCalls(h) : j < i

\* The extension refused to sign the payment, and handleSend has ended with
\* the error shown.
C14_Witness ==
    /\ hpc["handleSend"] = "settled"
    /\ ~ret["handleSend"].ok
    /\ Called("handleSend", "freighterApi.signTransaction")
    /\ ~Called("handleSend", "server.submitTransaction")
    /\ Called("handleSend", "toast.error")

----------------------------------------------------------------------------
(* C15.  No handler finishes, by success or by failure, with its loading    *)
(* flag still true, and neither does a fetch of the dashboard; and when the *)
(* call a handler awaits has failed, the handler's next step ends it with   *)
(* the flag cleared.                                                        *)

\* The handlers that set a loading flag, and the flag each one sets.
LoadingHandlers == {"handleConnect", "handleSend", "handleAddToken"}

LoadingFlag(h) ==
    IF h = "handleAddToken" THEN ui.addTokenModal.isLoading ELSE ui.isLoading

\* The call the handler awaits has thrown and the handler has not resumed yet.
Failed(h) == Suspended(h) /\ pc[h] = "done" /\ ~ret[h].ok

C15_LoadingIsCleared ==
    [][/\ \A h \in LoadingHandlers :
            /\ hpc'[h] = "settled" => ~LoadingFlag(h)'
            /\ Failed(h) /\ hpc'[h] # hpc[h] => hpc'[h] = "settled"
       /\ dashboard'.calls # <<>> => ~dashboard'.isLoading]_vars

\* addTrustline has thrown, and handleAddToken has ended with the error shown
\* and the modal's flag cleared.
C15_Witness ==
    /\ hpc["handleAddToken"] = "settled"
    /\ method["handleAddToken"] = "addTrustline"
    /\ ~ret["handleAddToken"].ok
    /\ Called("handleAddToken", "toast.error")
    /\ ~ui.addTokenModal.isLoading

----------------------------------------------------------------------------
(* C16.  Every failure (of connect, the balance query, send, add trustline, *)
(* disconnect, the plan's validation, the dashboard's fetch and the         *)
(* provider's installation check) is logged, and on the page, the form and  *)
(* the dashboard it is also shown to the user as a notification.            *)

\* The call has ended without doing what it was called for: it threw, or the
\* installation check answered false because its request was rejected.
Unsuccessful(p) ==
    /\ pc[p] = "done"
    /\ \/ ~ret[p].ok
       \/ method[p] = "FREIGHTER.isInstalled" /\ ~ret[p].val

\* What the plan form and the dashboard called when they last ran.
ComponentCalls(log, what) == {i \in DOMAIN log : log[i][1] = what}

C16_FailuresAreShownAndLogged ==
    /\ Unsuccessful(API) => Called(API, "console.error")
    /\ \A h \in Handlers :
         hpc[h] = "settled" /\ (~ret[h].ok \/ Called(h, "toast.error"))
           => Called(h, "toast.error") /\ Called(h, "console.error")
    /\ Submitted /\ PlanCalls("onSave") = {}
         => PlanCalls("toast.error") # {} /\ PlanCalls("console.error") # {}
    /\ ComponentCalls(dashboard.calls, "fetchDashboardData") # {}
       /\ dashboard.calls[1][2] = "rejected"
         => /\ ComponentCalls(dashboard.calls, "toast.error") # {}
            /\ ComponentCalls(dashboard.calls, "console.error") # {}

----------------------------------------------------------------------------
(* C17.  The marker 'stellar_wallet_connected' is written by the connect    *)
(* flow and removed by disconnect: when connect() has returned the marker   *)
(* is in localStorage, and when disconnect() has returned it is not.        *)

C17_MarkerFollowsSession ==
    \A p \in Procs :
        /\ pc[p] = "done" /\ method[p] \in ConnectMethods /\ ret[p].ok => marker
        /\ pc[p] = "done" /\ method[p] = "disconnect" /\ ret[p].ok => ~marker

----------------------------------------------------------------------------
(* C18.  When handleSend has ended, it has shown an error only if it        *)
(* submitted no payment to the ledger, and if it did submit one the          *)
(* recipient and amount fields are empty.                                    *)

\* The ledger accepted a transaction the caller submitted since it was triggered.
Paid(p) ==
    \E i \in At(p, "server.submitTransaction") : trace[p][i][3] # "rejected"

C18_ErrorMeansNothingWasSent ==
    LET h == "handleSend" IN
    hpc[h] = "settled" =>
        /\ Called(h, "toast.error") => ~Paid(h)
        /\ Paid(h) => ui.recipientAddress = "" /\ ui.amount = ""

----------------------------------------------------------------------------
(* C19.  In every state of the wallet page, when isConnected is false the   *)
(* address shown is empty and the balance shown is "0": no handler that was *)
(* still suspended when handleDisconnect ran writes them back.              *)

C19_DisconnectedShowsNothing ==
    ~ui.isConnected => ui.stellarAddress = "" /\ ui.balance = "0"

----------------------------------------------------------------------------
(* C20.  Every payment and every trustline the ledger accepts from the      *)
(* connected page has as its source account the address connect() returned  *)
(* last, which is the address the page shows, whatever the extension        *)
(* answers later.                                                           *)

\* p submits a transaction in this step and the ledger accepts it.
Accepted(p) ==
    /\ pc[p] \in {"sendPayment:submitTransaction", "addTrustline:submitTransaction"}
    /\ pc'[p] = "done"
    /\ ret'[p].ok

C20_SourceIsTheConnectedAddress ==
    [][\A h \in Handlers :
         ui.isConnected /\ Accepted(h) => ret'[h].val.source = ui.stellarAddress]_vars

----------------------------------------------------------------------------
(* C21.  In the dashboard isLoading is true whenever a fetchDashboardData   *)
(* is in flight, also when a change of foodBankId or of the timeframe has   *)
(* started a fetch before an earlier one has finished: isLoading is false   *)
(* only when no fetch remains in flight.                                    *)

====
